---------------------------- MODULE Spec2Model ----------------------------
(***************************************************************************)
(* A model of the ireal_url decoder: the descrambler (lib.rs unscramble /  *)
(* obfusc50), the percent-decoder (lib.rs unescape_percent), the lexer     *)
(* (tokenize.rs parse_tokens), the bar parser (tokenize.rs parse_music),   *)
(* the chord-quality text (types.rs Display for Flavor) and the written-   *)
(* bar parser and renderer of parse.rs.                                    *)
(*                                                                         *)
(* Each function is a small state machine over the function's own locals;  *)
(* the variable fn says which function the machine is running, and there   *)
(* is one specification per function (SpecUnscramble, SpecUnescape,        *)
(* SpecTokens and SpecPrefixes, SpecMusic, SpecFlavor, SpecWritten,        *)
(* SpecDisplay).                                                           *)
(*                                                                         *)
(* A Rust String is modelled as a sequence of characters.  In the          *)
(* descrambler and the percent-decoder a character is its Unicode code     *)
(* point (a natural number), because the code measures strings in UTF-8    *)
(* bytes (str::len, str::split_at) and builds characters from numbers      *)
(* (char::from_u32).  In the lexer a character is a one-character string.  *)
(***************************************************************************)
EXTENDS Integers, Sequences, FiniteSets, TLC

VARIABLES
    fn,              \* the function being run
    pc,              \* its position: "loop", "done" (returned), "panic" (aborted)
    input,           \* the argument the function was called with
    pass,            \* unscramble: 1 = first application, 2 = applied to its own output
    text,            \* the part of the input not yet consumed
    result,          \* unscramble / unescape_percent: the String being built
    state,           \* unescape_percent: UnescapeState
    num,             \* unescape_percent: the number being assembled
    ret,             \* the value returned: [tag |-> "Ok", val |-> ...] or [tag |-> "Err", ...]
    tokens,          \* parse_tokens: the Vec<Token> built so far
    bars,            \* parse_music: Vec<Bar>
    bar,             \* parse_music: Option<Bar>
    count,           \* parse_music: the slot cursor
    time_signature,  \* parse_music: the active TimeSignature
    consumed,        \* parse_music: how many tokens the for loop has taken
    token,           \* parse_music: the token of the loop's current turn
    squeezed,        \* history: the last Squeeze / SmallL token taken was a Squeeze
    written_bars,    \* parse.rs: Music.written_bars, the Vec<WrittenBar>
    written_bar,     \* parse.rs parse_music: the WrittenBar being filled
    width,           \* parse.rs parse_music: the Width given to the next chords
    bar_index,       \* Display for Music: i, the index of the bar to write next
    output           \* Display for Music: the text written to the Formatter f

musicVars == <<bars, bar, count, time_signature, consumed, token, squeezed>>

writtenVars == <<written_bars, written_bar, width, bar_index, output>>

vars ==
    <<fn, pc, input, pass, text, result, state, num, ret, tokens, musicVars,
      writtenVars>>

None == [tag |-> "None"]
NoRet == [tag |-> "NoRet"]

\* Result::Ok(v)
Ok(v) == [tag |-> "Ok", val |-> v]

\* What a call that may panic yields: the value it returns, or the panic.
Returned(v) == [panicked |-> FALSE, val |-> v]
Panicked == [panicked |-> TRUE]

\* Locals of the functions that are not running keep these values.
IdleUnescape == state = "Plain" /\ num = 0
IdleTokens == tokens = <<>>
IdleMusic ==
    /\ bars = <<>>
    /\ bar = None
    /\ count = 0
    /\ time_signature = [top |-> 4, bottom |-> 4]
    /\ consumed = 0
    /\ token = None
    /\ squeezed = FALSE
IdleWritten ==
    /\ written_bars = <<>>
    /\ written_bar = None
    /\ width = "Wide"
    /\ bar_index = 0
    /\ output = <<>>

(***************************************************************************)
(* Strings as the code measures them                                       *)
(***************************************************************************)

\* str::len: the length in bytes, one for each character and one more for
\* each of the thresholds 128, 2048 and 65536 of the UTF-8 encoding that the
\* character's code reaches.
StrLen(s) ==
    Len(s) + Cardinality({i \in 1..Len(s) : s[i] >= 128})
           + Cardinality({i \in 1..Len(s) : s[i] >= 2048})
           + Cardinality({i \in 1..Len(s) : s[i] >= 65536})

\* How many leading characters make up exactly mid bytes; -1 when byte mid
\* is not a character boundary (str::split_at panics there).
CharsInBytes(s, mid) ==
    LET ks == {k \in 0..Len(s) : k <= mid /\ StrLen(SubSeq(s, 1, k)) = mid}
    IN  IF ks = {} THEN -1 ELSE CHOOSE k \in ks : TRUE

(***************************************************************************)
(* Descrambler: lib.rs unscramble, obfusc50                                *)
(***************************************************************************)

BlockLen == 50

\* Vec::swap with 0-based indices.
Swap(chars, i, j) ==
    [k \in 1..Len(chars) |->
        IF k = i + 1 THEN chars[j + 1]
        ELSE IF k = j + 1 THEN chars[i + 1]
        ELSE chars[k]]

\* for i in lo..hi { chars.swap(i, last - i) }
RECURSIVE SwapLoop(_, _, _, _)
SwapLoop(chars, i, hi, last) ==
    IF i >= hi THEN chars
    ELSE SwapLoop(Swap(chars, i, last - i), i + 1, hi, last)

\* A mutant of obfusc50: the second loop runs over 10..25 and so also swaps
\* characters 24 and 25.
obfusc50_wide_band(chars) ==
    IF Len(chars) < 24 THEN Panicked
    ELSE LET last == Len(chars) - 1
         IN  Returned(SwapLoop(SwapLoop(chars, 0, 5, last), 10, 25, last))

\* obfusc50 on the characters of a part.  last - i is a usize: it underflows,
\* and the function panics, when the part has fewer than 24 characters.
obfusc50(chars) ==
    IF Len(chars) < 24 THEN Panicked
    ELSE LET last == Len(chars) - 1
         IN  Returned(SwapLoop(SwapLoop(chars, 0, 5, last), 10, 24, last))

\* The inputs: n characters, the one at position i (from 1) being the
\* character with code i, except at the positions of wide, where it is a
\* two-byte character.  All characters of a text are distinct, so each
\* output position shows which input position it came from.
MaxTextLen == 103
WidePositions == {1, 25, 50, 51}
WideSets == {{}} \cup {{w} : w \in WidePositions} \cup {{50, 51}}

MkText(n, wide) == [i \in 1..n |-> IF i \in wide THEN 200 + i ELSE i]

UnscrambleInputs ==
    {MkText(n, wide \cap (1..n)) : n \in 0..MaxTextLen, wide \in WideSets}

InitUnscramble ==
    /\ fn = "unscramble"
    /\ pc = "loop"
    /\ input \in UnscrambleInputs
    /\ pass = 1
    /\ text = input
    /\ result = <<>>
    /\ ret = NoRet
    /\ IdleUnescape /\ IdleTokens /\ IdleMusic /\ IdleWritten

\* One turn of `while text.len() > 50`.
UnscrambleLoop ==
    /\ fn = "unscramble" /\ pc = "loop"
    /\ StrLen(text) > BlockLen
    /\ LET k == CharsInBytes(text, BlockLen)
           part == SubSeq(text, 1, k)
           remainder == SubSeq(text, k + 1, Len(text))
           out == IF StrLen(remainder) < 2 THEN Returned(part)
                  ELSE obfusc50(part)
       IN  IF k = -1 \/ out.panicked
           THEN /\ pc' = "panic"
                /\ UNCHANGED <<text, result>>
           ELSE /\ text' = remainder
                /\ result' = result \o out.val
                /\ pc' = pc
    /\ UNCHANGED <<fn, input, pass, state, num, ret, tokens, musicVars, writtenVars>>

\* The loop's exit: result.push_str(text); result
UnscrambleReturn ==
    /\ fn = "unscramble" /\ pc = "loop"
    /\ StrLen(text) <= BlockLen
    /\ result' = result \o text
    /\ text' = <<>>
    /\ ret' = Ok(result \o text)
    /\ pc' = "done"
    /\ UNCHANGED <<fn, input, pass, state, num, tokens, musicVars, writtenVars>>

\* unscramble called again on what it returned.
UnscrambleAgain ==
    /\ fn = "unscramble" /\ pc = "done" /\ pass = 1
    /\ pass' = 2
    /\ text' = ret.val
    /\ result' = <<>>
    /\ ret' = NoRet
    /\ pc' = "loop"
    /\ UNCHANGED <<fn, input, state, num, tokens, musicVars, writtenVars>>

NextUnscramble == UnscrambleLoop \/ UnscrambleReturn \/ UnscrambleAgain

SpecUnscramble == InitUnscramble /\ [][NextUnscramble]_vars

(***************************************************************************)
(* What the descrambler is specified to do, stated on positions            *)
(***************************************************************************)

AllSingleByte(s) == \A i \in 1..Len(s) : s[i] < 128

\* The fixed permutation on the 0-based positions of a 50-character block:
\* i and 49-i change places for i in 0..4 and for i in 10..23.
Mirror(j) ==
    IF j \in (0..4) \cup (45..49) \cup (10..23) \cup (26..39)
    THEN BlockLen - 1 - j
    ELSE j

PermutedBlock(b) == [j \in 1..BlockLen |-> b[Mirror(j - 1) + 1]]

\* The k-th (from 0) full 50-character block of s, and what follows the
\* full blocks.
Block(s, k) == SubSeq(s, BlockLen * k + 1, BlockLen * (k + 1))
FullBlocks(s) == Len(s) \div BlockLen
Remainder(s) == SubSeq(s, BlockLen * FullBlocks(s) + 1, Len(s))
FollowedBy(s, k) == Len(s) - BlockLen * (k + 1)

UnscrambleReturned == fn = "unscramble" /\ pc = "done" /\ pass = 1

\* C1 (as claimed): for every string b of exactly 50 characters,
\* descramble(descramble(b)) is computed and equals b.  Violated: unscramble
\* cuts its blocks by bytes, and a 50-character string whose byte 50 falls
\* inside a multi-byte character makes str::split_at panic.
C1_DescrambleTwiceIsIdentity ==
    (fn = "unscramble" /\ Len(input) = BlockLen) =>
        /\ pc # "panic"
        /\ (pass = 2 /\ pc = "done" => ret.val = input)

\* What does hold of the block transform itself: obfusc50 applied twice to
\* the first 50 characters of any input (single-byte or not) gives them back.
Obfusc50IsInvolution ==
    (fn = "unscramble" /\ Len(input) >= BlockLen) =>
        LET b == SubSeq(input, 1, BlockLen)
        IN  obfusc50(obfusc50(b).val).val = b

\* And of unscramble on single-byte text: applied twice to a 50-character
\* string it returns the string (each application being the identity).
UnscrambleTwiceSingleByte ==
    (fn = "unscramble" /\ Len(input) = BlockLen /\ AllSingleByte(input)) =>
        /\ pc # "panic"
        /\ (pc = "done" => ret.val = input)

\* C2 (as claimed): every non-overlapping full 50-character block of the
\* input is permuted, also the block that ends the input or is followed by
\* fewer than 2 characters.  Stated here for single-byte text only, where
\* bytes and characters coincide.  Violated by a text of exactly 50
\* characters, which unscramble returns as it is.
C2_EveryFullBlockPermuted ==
    (UnscrambleReturned /\ AllSingleByte(input)) =>
        /\ Len(ret.val) = Len(input)
        /\ \A k \in 0..(FullBlocks(input) - 1) :
               Block(ret.val, k) = PermutedBlock(Block(input, k))
        /\ Remainder(ret.val) = Remainder(input)

\* C2 (amended): on a text of single-byte characters, unscramble applies
\* the permutation to exactly those full 50-character blocks that are
\* followed by at least 2 characters; a block followed by 0 or 1 characters
\* and the remainder after the last full block are copied unchanged.
C2_BlocksFollowedByTwoPermuted ==
    (UnscrambleReturned /\ AllSingleByte(input)) =>
        /\ Len(ret.val) = Len(input)
        /\ \A k \in 0..(FullBlocks(input) - 1) :
               Block(ret.val, k) =
                   IF FollowedBy(input, k) >= 2
                   THEN PermutedBlock(Block(input, k))
                   ELSE Block(input, k)
        /\ Remainder(ret.val) = Remainder(input)

\* A text with one permuted block and then one block followed by a single
\* character has been descrambled.
C2_Witness ==
    /\ UnscrambleReturned /\ AllSingleByte(input)
    /\ Len(input) = 2 * BlockLen + 1
    /\ Block(ret.val, 0) = PermutedBlock(Block(input, 0))
    /\ Block(ret.val, 0) # Block(input, 0)
    /\ Block(ret.val, 1) = Block(input, 1)

(***************************************************************************)
(* Percent-decoder: lib.rs hex_digit_value, unescape_percent               *)
(***************************************************************************)

\* Err(format!("Unknown value: {}", ch))
ErrUnknownValue(ch) == [tag |-> "Err", ch |-> ch]

\* A mutant of hex_digit_value: the upper-case digits are taken relative to
\* 'A' without the 10, so 'A'..'F' give 0..5.
hex_digit_value_upper_low(ch) ==
    IF ch \in 48..57 THEN Ok(ch - 48)
    ELSE IF ch \in 97..102 THEN Ok(ch - 87)
    ELSE IF ch \in 65..70 THEN Ok(ch - 65)
    ELSE ErrUnknownValue(ch)

\* A mutant of hex_digit_value: the upper-case digits are missing from the
\* table and fall to the error arm.
hex_digit_value_lower_only(ch) ==
    IF ch \in 48..57 THEN Ok(ch - 48)
    ELSE IF ch \in 97..102 THEN Ok(ch - 87)
    ELSE ErrUnknownValue(ch)

\* The match of hex_digit_value, arm by arm ('0' is 48, 'a' is 97, 'A' is 65).
hex_digit_value(ch) ==
    CASE ch = 48 -> Ok(0)   [] ch = 49 -> Ok(1)   [] ch = 50 -> Ok(2)
      [] ch = 51 -> Ok(3)   [] ch = 52 -> Ok(4)   [] ch = 53 -> Ok(5)
      [] ch = 54 -> Ok(6)   [] ch = 55 -> Ok(7)   [] ch = 56 -> Ok(8)
      [] ch = 57 -> Ok(9)   [] ch = 97 -> Ok(10)  [] ch = 98 -> Ok(11)
      [] ch = 99 -> Ok(12)  [] ch = 100 -> Ok(13) [] ch = 101 -> Ok(14)
      [] ch = 102 -> Ok(15) [] ch = 65 -> Ok(10)  [] ch = 66 -> Ok(11)
      [] ch = 67 -> Ok(12)  [] ch = 68 -> Ok(13)  [] ch = 69 -> Ok(14)
      [] ch = 70 -> Ok(15)
      [] OTHER -> ErrUnknownValue(ch)

\* char::from_u32 is None for a surrogate and above 0x10FFFF; unwrap panics then.
from_u32_is_some(n) == n < 55296 \/ (n > 57343 /\ n <= 1114111)

PercentChar == 37

\* The characters the inputs are made of: '%', a decimal digit, a lower-case
\* and an upper-case hex digit, and a letter that is no hex digit.
EscAlphabet == {PercentChar, 52, 97, 70, 103}
MaxEscLen == 4

RECURSIVE SeqsUpTo(_, _)
SeqsUpTo(S, n) ==
    IF n = 0 THEN {<<>>}
    ELSE LET shorter == SeqsUpTo(S, n - 1)
         IN  shorter \cup {Append(t, c) : t \in shorter, c \in S}

InitUnescape ==
    /\ fn = "unescape_percent"
    /\ pc = "loop"
    /\ input \in SeqsUpTo(EscAlphabet, MaxEscLen)
    /\ pass = 1
    /\ text = input
    /\ result = <<>>
    /\ state = "Plain"
    /\ num = 0
    /\ ret = NoRet
    /\ IdleTokens /\ IdleMusic /\ IdleWritten

UnescapeRunning == fn = "unescape_percent" /\ pc = "loop" /\ text # <<>>

UnescapeUntouched ==
    UNCHANGED <<fn, input, pass, tokens, musicVars, writtenVars>>

\* UnescapeState::Plain => match c { '%' => state = Percent, _ => result.push(c) }
UnescapePlain ==
    /\ UnescapeRunning /\ state = "Plain"
    /\ LET c == Head(text)
       IN  IF c = PercentChar
           THEN state' = "Percent" /\ result' = result
           ELSE state' = state /\ result' = Append(result, c)
    /\ text' = Tail(text)
    /\ UNCHANGED <<pc, num, ret>>
    /\ UnescapeUntouched

\* UnescapeState::Percent => { num = 16 * hex_digit_value(c)?; state = One }
UnescapePercent ==
    /\ UnescapeRunning /\ state = "Percent"
    /\ LET h == hex_digit_value(Head(text))
       IN  IF h.tag = "Err"
           THEN /\ pc' = "done" /\ ret' = h
                /\ UNCHANGED <<num, state>>
           ELSE /\ num' = 16 * h.val /\ state' = "One"
                /\ UNCHANGED <<pc, ret>>
    /\ text' = Tail(text)
    /\ UNCHANGED result
    /\ UnescapeUntouched

\* UnescapeState::One => { num += hex_digit_value(c)?;
\*     result.push(char::from_u32(num).unwrap()); state = Plain }
UnescapeOne ==
    /\ UnescapeRunning /\ state = "One"
    /\ LET h == hex_digit_value(Head(text))
       IN  IF h.tag = "Err"
           THEN /\ pc' = "done" /\ ret' = h
                /\ UNCHANGED <<num, state, result>>
           ELSE IF ~from_u32_is_some(num + h.val)
           THEN /\ pc' = "panic" /\ num' = num + h.val
                /\ UNCHANGED <<ret, state, result>>
           ELSE /\ num' = num + h.val
                /\ result' = Append(result, num + h.val)
                /\ state' = "Plain"
                /\ UNCHANGED <<pc, ret>>
    /\ text' = Tail(text)
    /\ UnescapeUntouched

\* The for loop is over: Ok(result)
UnescapeReturn ==
    /\ fn = "unescape_percent" /\ pc = "loop" /\ text = <<>>
    /\ pc' = "done"
    /\ ret' = Ok(result)
    /\ UNCHANGED <<text, result, state, num>>
    /\ UnescapeUntouched

NextUnescape == UnescapePlain \/ UnescapePercent \/ UnescapeOne \/ UnescapeReturn

SpecUnescape == InitUnescape /\ [][NextUnescape]_vars

(***************************************************************************)
(* What the percent-decoder is specified to do, stated on the input        *)
(***************************************************************************)

IsHexDigit(c) == c \in (48..57) \cup (97..102) \cup (65..70)

\* The value of a hex digit: '0'..'9' are 0..9, 'a'..'f' and 'A'..'F' are 10..15.
HexValue(c) ==
    IF c \in 48..57 THEN c - 48 ELSE IF c \in 97..102 THEN c - 87 ELSE c - 55

\* Every '%' that starts an escape is followed by two hex digits.
RECURSIVE WellEscaped(_)
WellEscaped(t) ==
    IF t = <<>> THEN TRUE
    ELSE IF Head(t) # PercentChar THEN WellEscaped(Tail(t))
    ELSE /\ Len(t) >= 3
         /\ IsHexDigit(t[2]) /\ IsHexDigit(t[3])
         /\ WellEscaped(SubSeq(t, 4, Len(t)))

\* The decoding of a well-escaped text: plain characters as they are, each
\* %HL as the one character 16*H + L.
RECURSIVE Decoded(_)
Decoded(t) ==
    IF t = <<>> THEN <<>>
    ELSE IF Head(t) # PercentChar THEN <<Head(t)>> \o Decoded(Tail(t))
    ELSE <<16 * HexValue(t[2]) + HexValue(t[3])>> \o Decoded(SubSeq(t, 4, Len(t)))

\* The position in t of the first character that follows a '%' of an escape
\* (as its first or second character) and is no hex digit; 0 if there is none.
RECURSIVE FirstBadDigit(_, _)
FirstBadDigit(t, at) ==
    IF at > Len(t) THEN 0
    ELSE IF t[at] # PercentChar THEN FirstBadDigit(t, at + 1)
    ELSE IF at + 1 <= Len(t) /\ ~IsHexDigit(t[at + 1]) THEN at + 1
    ELSE IF at + 2 <= Len(t) /\ ~IsHexDigit(t[at + 2]) THEN at + 2
    ELSE FirstBadDigit(t, at + 3)

\* The input ends inside an escape: after a '%', or after a '%' and one hex digit.
RECURSIVE EndsInsideEscape(_)
EndsInsideEscape(t) ==
    IF t = <<>> THEN FALSE
    ELSE IF Head(t) # PercentChar THEN EndsInsideEscape(Tail(t))
    ELSE IF Len(t) < 3 THEN TRUE
    ELSE EndsInsideEscape(SubSeq(t, 4, Len(t)))

UnescapeDone == fn = "unescape_percent" /\ pc = "done"

\* C3: percent-decoding a text whose escapes are all complete returns the
\* text with every character outside an escape unchanged and in order and
\* every %HL replaced by the one character with code 16*value(H)+value(L);
\* a text without '%' comes back unchanged.
C3_DecodesEscapes ==
    /\ fn = "unescape_percent" => pc # "panic"
    /\ (UnescapeDone /\ WellEscaped(input)) => ret = Ok(Decoded(input))
    /\ (UnescapeDone /\ \A i \in 1..Len(input) : input[i] # PercentChar)
           => ret = Ok(input)

\* A text with plain characters and an escape has been decoded.
C3_Witness ==
    /\ UnescapeDone /\ ret.tag = "Ok"
    /\ input = <<103, PercentChar, 52, 97>>
    /\ ret.val = <<103, 74>>

\* C4: hex_digit_value gives 0..9 for '0'..'9', 10..15 for 'a'..'f' and for
\* 'A'..'F' and an error for every other character; unescape_percent
\* returns that error, and no string, when the first or second character
\* after a '%' is no hex digit.
MaxCharCode == 255

C4_HexDigitsAndErrors ==
    /\ \A ch \in 0..MaxCharCode :
           hex_digit_value(ch) =
               IF IsHexDigit(ch) THEN Ok(HexValue(ch)) ELSE ErrUnknownValue(ch)
    /\ (UnescapeDone /\ FirstBadDigit(input, 1) # 0)
           => ret = ErrUnknownValue(input[FirstBadDigit(input, 1)])
    /\ (UnescapeDone /\ ret.tag = "Err") => FirstBadDigit(input, 1) # 0

\* unescape_percent has returned the error for a bad second digit.
C4_Witness ==
    /\ UnescapeDone
    /\ input = <<97, PercentChar, 70, 103>>
    /\ ret = ErrUnknownValue(103)

\* C5 (as claimed): an input that ends inside an escape (the scanner is in
\* Percent or One when the characters run out) is rejected with an error.
\* Violated: the loop just ends and Ok(result) is returned without the
\* unfinished escape.
C5_RejectsUnfinishedEscape ==
    (UnescapeDone /\ text = <<>> /\ state \in {"Percent", "One"})
        => ret.tag = "Err"

\* The same, stated on the input alone.
C5_RejectsUnfinishedEscapeOfInput ==
    (UnescapeDone /\ FirstBadDigit(input, 1) = 0 /\ EndsInsideEscape(input))
        => ret.tag = "Err"

(***************************************************************************)
(* Lexer: tokenize.rs.  A text is a sequence of one-character strings; a   *)
(* parser applied to an input yields NoMatch (nom's Err::Error), or        *)
(* Match(value, rest of the input), or Panics (a closure of map panicked). *)
(***************************************************************************)

NoMatch == [ok |-> FALSE, panicked |-> FALSE]
Match(v, rest) == [ok |-> TRUE, panicked |-> FALSE, val |-> v, rest |-> rest]
Panics == [ok |-> FALSE, panicked |-> TRUE]

Some(v) == [tag |-> "Some", val |-> v]

StartsWith(inp, t) == Len(inp) >= Len(t) /\ SubSeq(inp, 1, Len(t)) = t
Drop(inp, n) == SubSeq(inp, n + 1, Len(inp))

\* map(tag(t), |_| v)
tag(t, v, inp) == IF StartsWith(inp, t) THEN Match(v, Drop(inp, Len(t))) ELSE NoMatch

\* alt((p1, p2, ...)) on the results of p1, p2, ... in order: the first
\* parser that does not fail with an error decides.
RECURSIVE alt(_)
alt(rs) ==
    IF rs = <<>> THEN NoMatch
    ELSE IF Head(rs).ok \/ Head(rs).panicked THEN Head(rs)
    ELSE alt(Tail(rs))

\* alt over a table of map(tag(t), |_| v) entries <<t, v>>.
altTags(table, inp) == alt([i \in 1..Len(table) |-> tag(table[i][1], table[i][2], inp)])

NoteTable ==
    << <<(<<"A", "b">>), "AFlat">>,  <<(<<"A", "#">>), "ASharp">>, <<(<<"A">>), "A">>,
       <<(<<"B", "b">>), "BFlat">>,  <<(<<"B">>), "B">>,
       <<(<<"C", "b">>), "CFlat">>,  <<(<<"C", "#">>), "CSharp">>, <<(<<"C">>), "C">>,
       <<(<<"D", "b">>), "DFlat">>,  <<(<<"D", "#">>), "DSharp">>, <<(<<"D">>), "D">>,
       <<(<<"E", "b">>), "EFlat">>,  <<(<<"E">>), "E">>,
       <<(<<"F", "#">>), "FSharp">>, <<(<<"F">>), "F">>,
       <<(<<"G", "b">>), "GFlat">>,  <<(<<"G", "#">>), "GSharp">>, <<(<<"G">>), "G">>,
       <<(<<"W">>), "W">> >>

note(inp) == altTags(NoteTable, inp)

NumberTable ==
    << <<(<<"2">>), "Two">>,  <<(<<"3">>), "Three">>, <<(<<"5">>), "Five">>,
       <<(<<"6">>), "Six">>,  <<(<<"7">>), "Seven">>, <<(<<"9">>), "Nine">>,
       <<(<<"1", "1">>), "Eleven">>, <<(<<"1", "3">>), "Thirteen">> >>

number(inp) == altTags(NumberTable, inp)

\* An operator that uses a parser's result takes the result as a parameter
\* (named after the variable of the closure or tuple it stands for).

\* alt((map(p, Some), map(tag(""), |_| None))) on the result r of p.
orNone(r, inp) == IF r.ok THEN Match(Some(r.val), r.rest) ELSE Match(None, inp)

number_option(inp) == orNone(number(inp), inp)

\* |x| Flavor::kind(x.1)
flavorOf(kind, n) == Match([kind |-> kind, n |-> n.val], n.rest)

\* map(tuple((tag(t), number_option())), |x| Flavor::kind(x.1))
flavorWithNumber(t, kind, inp) ==
    IF StartsWith(inp, t) THEN flavorOf(kind, number_option(Drop(inp, Len(t))))
    ELSE NoMatch

\* flavor as it would be with the one-character "-" and "o" tried before the
\* longer spellings that begin with them.
flavor_short_first(inp) ==
    alt(<< tag(<<"6", "9">>, [kind |-> "SixthNinth"], inp),
           flavorWithNumber(<<"-">>, "Minor", inp),
           tag(<<"-", "6", "9">>, [kind |-> "MinorSixthNinth"], inp),
           flavorWithNumber(<<"-", "^">>, "MinorMajor", inp),
           flavorWithNumber(<<"^">>, "Major", inp),
           flavorWithNumber(<<"h">>, "HalfDiminished", inp),
           flavorWithNumber(<<"o">>, "Diminished", inp),
           flavorWithNumber(<<"o", "^">>, "DiminishedMajor", inp),
           flavorWithNumber(<<"+">>, "Augmented", inp),
           flavorOf("Dominant", number_option(inp)) >>)

flavor(inp) ==
    alt(<< tag(<<"6", "9">>, [kind |-> "SixthNinth"], inp),
           tag(<<"-", "6", "9">>, [kind |-> "MinorSixthNinth"], inp),
           flavorWithNumber(<<"-", "^">>, "MinorMajor", inp),
           flavorWithNumber(<<"-">>, "Minor", inp),
           flavorWithNumber(<<"^">>, "Major", inp),
           flavorWithNumber(<<"h">>, "HalfDiminished", inp),
           flavorWithNumber(<<"o", "^">>, "DiminishedMajor", inp),
           flavorWithNumber(<<"o">>, "Diminished", inp),
           flavorWithNumber(<<"+">>, "Augmented", inp),
           flavorOf("Dominant", number_option(inp)) >>)

\* |x| AlteredNotes::kind(x.1); the tuple fails when number() fails.
alteredOf(kind, n) ==
    IF n.ok THEN Match([kind |-> kind, n |-> n.val], n.rest) ELSE NoMatch

\* map(tuple((tag(t), number())), |x| AlteredNotes::kind(x.1))
alteredWithNumber(t, kind, inp) ==
    IF StartsWith(inp, t) THEN alteredOf(kind, number(Drop(inp, Len(t))))
    ELSE NoMatch

alteredNote(inp) ==
    alt(<< alteredWithNumber(<<"b">>, "Flat", inp),
           alteredWithNumber(<<"#">>, "Sharp", inp),
           alteredWithNumber(<<"a", "d", "d">>, "Add", inp),
           tag(<<"s", "u", "s">>, [kind |-> "Sus"], inp),
           tag(<<"a", "l", "t">>, [kind |-> "Alt"], inp) >>)

\* many0(alt((...))): apply until it fails, collecting the values.
RECURSIVE altered_notes(_)
prepend(v, more) == Match(<<v>> \o more.val, more.rest)
many0Altered(a, inp) ==
    IF ~a.ok THEN Match(<<>>, inp) ELSE prepend(a.val, altered_notes(a.rest))
altered_notes(inp) == many0Altered(alteredNote(inp), inp)

\* alt((map(tuple((tag("/"), note())), |x| Some(x.1)), map(tag(""), |_| None)))
overNote(n, inp) ==
    IF StartsWith(inp, <<"/">>) /\ n.ok THEN Match(Some(n.val), n.rest)
    ELSE Match(None, inp)
over(inp) == overNote(note(Drop(inp, 1)), inp)

NC == [nc |-> TRUE]

\* tuple((note(), flavor(), altered_notes(), over())), one parser after the
\* other on what the one before left, and the closure that builds the Chord.
chordOver(root, fl, an, o) ==
    Match([nc |-> FALSE, root |-> root, flavor |-> fl,
           altered_notes |-> an, bass_note |-> o.val], o.rest)
chordAltered(root, fl, a) == chordOver(root, fl, a.val, over(a.rest))
chordFlavor(root, f) == chordAltered(root, f.val, altered_notes(f.rest))
chordNote(r) == IF r.ok THEN chordFlavor(r.val, flavor(r.rest)) ELSE NoMatch

chord(inp) ==
    IF StartsWith(inp, <<"n">>) THEN Match(NC, Drop(inp, 1))
    ELSE chordNote(note(inp))

chordToken(c) ==
    IF c.ok THEN Match([kind |-> "Chord", chord |-> c.val], c.rest) ELSE NoMatch
chord_token(inp) == chordToken(chord(inp))

Tok(kind) == [kind |-> kind]

\* map(tuple((tag("*"), take(1usize))), ...): the marker and any one character.
section_marker(inp) ==
    IF StartsWith(inp, <<"*">>) /\ Len(inp) >= 2
    THEN Match([kind |-> "SectionMarker", label |-> inp[2]], Drop(inp, 2))
    ELSE NoMatch

numbered_ending(inp) ==
    IF StartsWith(inp, <<"N">>) /\ Len(inp) >= 2
    THEN Match([kind |-> "NumberedEnding", label |-> inp[2]], Drop(inp, 2))
    ELSE NoMatch

\* The index of the first c in inp, 0 if there is none.
RECURSIVE IndexOf(_, _, _)
IndexOf(inp, c, at) ==
    IF at > Len(inp) THEN 0 ELSE IF inp[at] = c THEN at ELSE IndexOf(inp, c, at + 1)

\* tuple((tag("<"), take_until(">"), tag(">"))), close being the place of
\* the first ">" (0: there is none, and take_until fails).
commentUntil(close, inp) ==
    IF StartsWith(inp, <<"<">>) /\ close # 0
    THEN Match([kind |-> "Comment", text |-> SubSeq(inp, 2, close - 1)],
               Drop(inp, close))
    ELSE NoMatch
comment(inp) == commentUntil(IndexOf(inp, ">", 2), inp)

\* tuple((tag("("), chord(), tag(")")))
alternateChord(c) ==
    IF c.ok /\ StartsWith(c.rest, <<")">>)
    THEN Match([kind |-> "AlternateChord", chord |-> c.val], Drop(c.rest, 1))
    ELSE NoMatch
alternate(inp) ==
    IF StartsWith(inp, <<"(">>) THEN alternateChord(chord(Drop(inp, 1)))
    ELSE NoMatch

Digits == <<"0", "1", "2", "3", "4", "5", "6", "7", "8", "9">>
IsDigit(c) == \E d \in 1..Len(Digits) : Digits[d] = c
DigitValue(c) == (CHOOSE d \in 1..Len(Digits) : Digits[d] = c) - 1

\* digit1: how many leading digits inp has.
RECURSIVE DigitRun(_)
DigitRun(inp) ==
    IF inp # <<>> /\ IsDigit(Head(inp)) THEN 1 + DigitRun(Tail(inp)) ELSE 0

\* u32::MAX, 4294967295, digit by digit (it is beyond the model checker's integers).
U32MaxDigits == <<4, 2, 9, 4, 9, 6, 7, 2, 9, 5>>

RECURSIVE StripZeros(_)
StripZeros(ds) ==
    IF ds # <<>> /\ Head(ds) = "0" THEN StripZeros(Tail(ds)) ELSE ds

\* Of two digit strings of the same length, the first is the larger number.
RECURSIVE DigitsGreater(_, _)
DigitsGreater(ds, max) ==
    IF ds = <<>> THEN FALSE
    ELSE IF DigitValue(Head(ds)) # Head(max) THEN DigitValue(Head(ds)) > Head(max)
    ELSE DigitsGreater(Tail(ds), Tail(max))

ExceedsU32(ds) ==
    LET s == StripZeros(ds)
    IN  \/ Len(s) > Len(U32MaxDigits)
        \/ Len(s) = Len(U32MaxDigits) /\ DigitsGreater(s, U32MaxDigits)

RECURSIVE DecimalValue(_)
DecimalValue(ds) ==
    IF ds = <<>> THEN 0
    ELSE 10 * DecimalValue(SubSeq(ds, 1, Len(ds) - 1)) + DigitValue(ds[Len(ds)])

\* str::parse::<u32>().unwrap() on a string of digits: the empty string and
\* a number above u32::MAX are errors, and unwrap panics.
parse_u32(ds) ==
    IF ds = <<>> \/ ExceedsU32(ds) THEN Panicked
    ELSE Returned(DecimalValue(ds))

\* |x| { let (top, bottom) = digits.split_at(digits.len() - 1); ... }
timeSignatureOf(top_num, bottom_num, rest) ==
    IF top_num.panicked \/ bottom_num.panicked THEN Panics
    ELSE Match([kind |-> "TimeSignature", top |-> top_num.val,
                bottom |-> bottom_num.val], rest)

\* map(tuple((tag("T"), digit1)), ...) with n the length of the run of digits
\* after the "T": all digits but the last are the top number, the last digit
\* is the bottom number.
timeSignatureDigits(n, inp) ==
    IF StartsWith(inp, <<"T">>) /\ n >= 1
    THEN timeSignatureOf(parse_u32(SubSeq(inp, 2, n)),
                         parse_u32(SubSeq(inp, n + 1, n + 1)),
                         Drop(inp, n + 1))
    ELSE NoMatch
time_signature_token(inp) == timeSignatureDigits(DigitRun(Drop(inp, 1)), inp)

ControlTable ==
    << <<(<<"{">>), Tok("RepeatStart")>>,
       <<(<<"}", "|">>), Tok("RepeatEnd")>>,
       <<(<<"}">>), Tok("RepeatEnd")>>,
       <<(<<",">>), Tok("Comma")>>,
       <<(<<"X", "y", "Q">>), Tok("Blank")>>,
       <<(<<"r", "|">>), Tok("RepeatTwoMeasures")>>,
       <<(<<"x">>), Tok("RepeatMeasure")>>,
       <<(<<"s">>), Tok("Squeeze")>>,
       <<(<<"Q">>), Tok("Coda")>>,
       <<(<<"S">>), Tok("Segno")>>,
       <<(<<"Y">>), Tok("VerticalSpace")>>,
       <<(<<"p">>), Tok("PauseSlash")>>,
       <<(<<"U">>), Tok("EndingMeasure")>>,
       <<(<<"l">>), Tok("SmallL")>>,
       <<(<<"f">>), Tok("Fermata")>>,
       <<(<<" ">>), Tok("Space")>> >>

control(inp) == altTags(ControlTable, inp)

BarTable ==
    << <<(<<"|", "|">>), Tok("Bar")>>,
       <<(<<"|">>), Tok("Bar")>>,
       <<(<<"[">>), Tok("DoubleBarStart")>>,
       <<(<<"]">>), Tok("DoubleBarEnd")>>,
       <<(<<"Z">>), Tok("FinalBar")>>,
       <<(<<"K", "c", "l">>), Tok("BarAndRepeat")>>,
       <<(<<"L", "Z", "|">>), Tok("Bar")>>,
       <<(<<"L", "Z">>), Tok("Bar")>> >>

bar_token(inp) == altTags(BarTable, inp)

\* The alt of parse_tokens: one token at the head of inp.
any_token(inp) ==
    alt(<< chord_token(inp), bar_token(inp), control(inp), comment(inp),
           alternate(inp), section_marker(inp), numbered_ending(inp),
           time_signature_token(inp) >>)

\* The pieces the input texts are put together from: a note, an accidental,
\* a quality, a digit, a bar line, the bar-and-repeat shorthand, the time
\* signature letter, a character of no rule, and the comment and section
\* marker delimiters.
Pieces ==
    { <<"C">>, <<"b">>, <<"-", "6", "9">>, <<"7">>, <<"|">>, <<"K", "c", "l">>,
      <<"T">>, <<"4">>, <<"!">>, <<"<">>, <<">">>, <<"*">> }
MaxPieces == 3

RECURSIVE Texts(_)
Texts(n) ==
    IF n = 0 THEN {<<>>}
    ELSE LET shorter == Texts(n - 1)
         IN  shorter \cup {t \o p : t \in shorter, p \in Pieces}

InitTokens ==
    /\ fn = "parse_tokens"
    /\ pc = "loop"
    /\ input \in Texts(MaxPieces)
    /\ pass = 1
    /\ text = input
    /\ result = <<>>
    /\ tokens = <<>>
    /\ ret = NoRet
    /\ IdleUnescape /\ IdleMusic /\ IdleWritten

TokensUntouched ==
    UNCHANGED <<fn, input, pass, result, state, num, musicVars, writtenVars>>

\* One turn of many0: the alt matches at the head of the text.
TokenMatched ==
    /\ fn = "parse_tokens" /\ pc = "loop"
    /\ \E t \in {any_token(text)} :
           /\ t.ok
           /\ tokens' = Append(tokens, t.val)
           /\ text' = t.rest
    /\ UNCHANGED <<pc, ret>>
    /\ TokensUntouched

\* The alt fails, or the closure of a rule panics (time_signature on "T" and
\* a single digit).  When it fails (no rule matches, or the text is used up)
\* many0 ends with what is left, all_consuming makes that an Err unless
\* nothing is left, and parse_music calls unwrap() on it.
TokensEnd ==
    /\ fn = "parse_tokens" /\ pc = "loop"
    /\ \E t \in {any_token(text)} :
           /\ ~t.ok
           /\ IF ~t.panicked /\ text = <<>>
              THEN pc' = "done" /\ ret' = Ok(tokens)
              ELSE pc' = "panic" /\ ret' = ret
    /\ UNCHANGED <<text, tokens>>
    /\ TokensUntouched

NextTokens == TokenMatched \/ TokensEnd

SpecTokens == InitTokens /\ [][NextTokens]_vars

\* The lexer stopped at a place in the text where no rule matches.
StoppedAtUnmatched ==
    /\ fn = "parse_tokens" /\ pc # "loop" /\ text # <<>>
    /\ \E t \in {any_token(text)} : ~t.ok /\ ~t.panicked

\* C6 (as claimed): when no rule matches at some position of the text,
\* tokenization returns an error value to its caller and does not abort,
\* and it returns tokens only if the whole text was consumed.  Violated:
\* parse_music unwraps the result of all_consuming and panics.
C6_UnmatchedInputIsAnError ==
    /\ StoppedAtUnmatched => (pc = "done" /\ ret.tag = "Err")
    /\ (fn = "parse_tokens" /\ pc = "done" /\ ret.tag = "Ok") => text = <<>>

\* What does hold: characters are never dropped, the tokens come back only
\* when all of the text was consumed, and otherwise the call panics.
TokensAllOrPanic ==
    (fn = "parse_tokens" /\ pc # "loop") =>
        \/ pc = "done" /\ ret = Ok(tokens) /\ text = <<>>
        \/ pc = "panic" /\ ret = NoRet

(***************************************************************************)
(* Bar parser: tokenize.rs parse_music, the for loop over the tokens.      *)
(* The tokens are those the lexer can produce; which token comes next is   *)
(* left open, so the behaviours are the runs of parse_music on every token *)
(* sequence of up to MaxTokens tokens.  The Music returned is modelled     *)
(* without its raw text.                                                   *)
(***************************************************************************)

\* Result::Err(message.to_string())
Err(message) == [tag |-> "Err", msg |-> message]

\* Bar::new(count_count): count_count empty slots.
Bar_new(count_count) == [counts |-> [i \in 1..count_count |-> <<>>]]

\* bar.counts[at].push(element), at counted from 0.
Push(b, at, element) ==
    [counts |-> [b.counts EXCEPT ![at + 1] = Append(@, element)]]

ChordElement(c) == [kind |-> "Chord", chord |-> c]
AlternateChordElement(c) == [kind |-> "AlternateChord", chord |-> c]

\* Two chords the lexer yields for "C" and "F7", and the no-chord "n".
ChordC ==
    [nc |-> FALSE, root |-> "C", flavor |-> [kind |-> "Dominant", n |-> None],
     altered_notes |-> <<>>, bass_note |-> None]
ChordF7 ==
    [nc |-> FALSE, root |-> "F",
     flavor |-> [kind |-> "Dominant", n |-> Some("Seven")],
     altered_notes |-> <<>>, bass_note |-> None]
Chords == {ChordC, ChordF7}
AlternateChords == {ChordC, NC}

BarClosingKinds == {"Bar", "FinalBar", "DoubleBarEnd", "RepeatEnd"}

\* Tokens of the arm `ignore => println!(...)`, which is one arm for every
\* token without an arm of its own: three glyph tokens, the time signature
\* and the two layout tokens stand for all of them.
IgnoredTokens ==
    { Tok("Coda"), [kind |-> "Comment", text |-> <<"a">>], Tok("Fermata"),
      [kind |-> "TimeSignature", top |-> 3, bottom |-> 4],
      Tok("Squeeze"), Tok("SmallL") }

MaxTokens == 6

InitMusic ==
    /\ fn = "parse_music"
    /\ pc = "loop"
    /\ input = <<>>
    /\ pass = 1
    /\ text = <<>>
    /\ result = <<>>
    /\ ret = NoRet
    /\ bars = <<>>
    /\ time_signature = [top |-> 4, bottom |-> 4]
    /\ bar = None
    /\ count = 0
    /\ consumed = 0
    /\ token = None
    /\ squeezed = FALSE
    /\ IdleUnescape /\ IdleTokens /\ IdleWritten

\* The for loop has another token.
MusicRunning == fn = "parse_music" /\ pc = "loop" /\ consumed < MaxTokens

\* The loop's turn is for token t.
Take(t) == token' = t /\ consumed' = consumed + 1

MusicUntouched ==
    UNCHANGED <<fn, input, pass, text, result, state, num, tokens, time_signature,
                writtenVars>>

\* if bar.is_none() { bar = Some(Bar::new(time_signature.top)); count = 0; }
\* gives this bar and this cursor.
BarOrNew == IF bar = None THEN Bar_new(time_signature.top) ELSE bar.val
CountOrZero == IF bar = None THEN 0 ELSE count

\* Token::Bar | Token::FinalBar | Token::DoubleBarEnd | Token::RepeatEnd
BarClosingToken ==
    /\ MusicRunning
    /\ \E k \in BarClosingKinds : Take(Tok(k))
    /\ IF bar # None
       THEN /\ bars' = Append(bars, bar.val)
            /\ bar' = None
            /\ count' = 0
       ELSE UNCHANGED <<bars, bar, count>>
    /\ UNCHANGED <<pc, ret, squeezed>>
    /\ MusicUntouched

\* The Chord arm as it would be if the open bar made by a repeat shared its
\* storage with the sealed bar it was made from (no clone): the push shows in
\* the last sealed bar too.
ChordToken_no_clone ==
    /\ MusicRunning
    /\ \E c \in Chords :
           /\ Take([kind |-> "Chord", chord |-> c])
           /\ IF CountOrZero >= Len(BarOrNew.counts)
              THEN /\ pc' = "panic"
                   /\ bar' = Some(BarOrNew)
                   /\ count' = CountOrZero
                   /\ bars' = bars
              ELSE /\ pc' = pc
                   /\ bar' = Some(Push(BarOrNew, CountOrZero, ChordElement(c)))
                   /\ count' = CountOrZero + 1
                   /\ bars' = IF bars # <<>> /\ bar = Some(bars[Len(bars)])
                              THEN [bars EXCEPT ![Len(bars)] =
                                        Push(@, CountOrZero, ChordElement(c))]
                              ELSE bars
    /\ UNCHANGED <<ret, squeezed>>
    /\ MusicUntouched

\* Token::Chord(c); indexing counts[count] beyond the slots panics.
ChordToken ==
    /\ MusicRunning
    /\ \E c \in Chords :
           /\ Take([kind |-> "Chord", chord |-> c])
           /\ IF CountOrZero >= Len(BarOrNew.counts)
              THEN /\ pc' = "panic"
                   /\ bar' = Some(BarOrNew)
                   /\ count' = CountOrZero
              ELSE /\ pc' = pc
                   /\ bar' = Some(Push(BarOrNew, CountOrZero, ChordElement(c)))
                   /\ count' = CountOrZero + 1
    /\ UNCHANGED <<bars, ret, squeezed>>
    /\ MusicUntouched

\* Token::AlternateChord(c)
AlternateChordToken ==
    /\ MusicRunning
    /\ \E c \in AlternateChords :
           /\ Take([kind |-> "AlternateChord", chord |-> c])
           /\ IF CountOrZero >= Len(BarOrNew.counts)
              THEN /\ pc' = "panic"
                   /\ bar' = Some(BarOrNew)
              ELSE /\ pc' = pc
                   /\ bar' = Some(Push(BarOrNew, CountOrZero,
                                       AlternateChordElement(c)))
    /\ count' = CountOrZero
    /\ UNCHANGED <<bars, ret, squeezed>>
    /\ MusicUntouched

\* The RepeatMeasure arm as it would be if it copied the first sealed bar
\* and not the last.
RepeatMeasureToken_copies_first ==
    /\ MusicRunning
    /\ Take(Tok("RepeatMeasure"))
    /\ IF bars = <<>>
       THEN /\ pc' = "done"
            /\ ret' = Err("Repeat measure at beginning of song")
            /\ UNCHANGED <<bar, count>>
       ELSE /\ bar' = Some(bars[1])
            /\ count' = 0
            /\ UNCHANGED <<pc, ret>>
    /\ UNCHANGED <<bars, squeezed>>
    /\ MusicUntouched

\* RepeatMeasure without the test for an empty bar list: last().unwrap()
\* then panics.
RepeatMeasureToken_no_check ==
    /\ MusicRunning
    /\ Take(Tok("RepeatMeasure"))
    /\ IF bars = <<>>
       THEN /\ pc' = "panic"
            /\ UNCHANGED <<bar, count>>
       ELSE /\ bar' = Some(bars[Len(bars)])
            /\ count' = 0
            /\ pc' = pc
    /\ UNCHANGED <<bars, ret, squeezed>>
    /\ MusicUntouched

\* Token::RepeatMeasure
RepeatMeasureToken ==
    /\ MusicRunning
    /\ Take(Tok("RepeatMeasure"))
    /\ IF bars = <<>>
       THEN /\ pc' = "done"
            /\ ret' = Err("Repeat measure at beginning of song")
            /\ UNCHANGED <<bar, count>>
       ELSE /\ bar' = Some(bars[Len(bars)])
            /\ count' = 0
            /\ UNCHANGED <<pc, ret>>
    /\ UNCHANGED <<bars, squeezed>>
    /\ MusicUntouched

\* The RepeatTwoMeasures arm as it would be if it appended the last sealed
\* bar and opened the one before it (the two bars the wrong way round).
RepeatTwoMeasuresToken_swapped ==
    /\ MusicRunning
    /\ Take(Tok("RepeatTwoMeasures"))
    /\ IF Len(bars) < 2
       THEN /\ pc' = "done"
            /\ ret' = Err("Repeat 2 measures at beginning of song")
            /\ UNCHANGED <<bars, bar, count>>
       ELSE /\ bars' = Append(bars, bars[Len(bars)])
            /\ bar' = Some(bars[Len(bars) - 1])
            /\ count' = 0
            /\ UNCHANGED <<pc, ret>>
    /\ UNCHANGED squeezed
    /\ MusicUntouched

\* Token::RepeatTwoMeasures
RepeatTwoMeasuresToken ==
    /\ MusicRunning
    /\ Take(Tok("RepeatTwoMeasures"))
    /\ IF Len(bars) < 2
       THEN /\ pc' = "done"
            /\ ret' = Err("Repeat 2 measures at beginning of song")
            /\ UNCHANGED <<bars, bar, count>>
       ELSE /\ bars' = Append(bars, bars[Len(bars) - 1])
            /\ bar' = Some(bars[Len(bars)])
            /\ count' = 0
            /\ UNCHANGED <<pc, ret>>
    /\ UNCHANGED squeezed
    /\ MusicUntouched

\* The BarAndRepeat arm as it would be if it opened a fresh bar and not a
\* clone of the last sealed one.
BarAndRepeatToken_opens_new ==
    /\ MusicRunning
    /\ Take(Tok("BarAndRepeat"))
    /\ LET pushed == IF bar # None THEN Append(bars, bar.val) ELSE bars
       IN  /\ bars' = pushed
           /\ IF pushed = <<>>
              THEN /\ pc' = "panic"
                   /\ UNCHANGED <<bar, count>>
              ELSE /\ pc' = pc
                   /\ bar' = Some(Bar_new(time_signature.top))
                   /\ count' = 0
    /\ UNCHANGED <<ret, squeezed>>
    /\ MusicUntouched

\* Token::BarAndRepeat; bars.last().unwrap() panics on an empty bar list.
BarAndRepeatToken ==
    /\ MusicRunning
    /\ Take(Tok("BarAndRepeat"))
    /\ LET pushed == IF bar # None THEN Append(bars, bar.val) ELSE bars
       IN  /\ bars' = pushed
           /\ IF pushed = <<>>
              THEN /\ pc' = "panic"
                   /\ UNCHANGED <<bar, count>>
              ELSE /\ pc' = pc
                   /\ bar' = Some(pushed[Len(pushed)])
                   /\ count' = 0
    /\ UNCHANGED <<ret, squeezed>>
    /\ MusicUntouched

\* Token::Space
SpaceToken ==
    /\ MusicRunning
    /\ Take(Tok("Space"))
    /\ bar' = Some(BarOrNew)
    /\ count' = CountOrZero + 1
    /\ UNCHANGED <<bars, pc, ret, squeezed>>
    /\ MusicUntouched

\* ignore => println!("Ignoring token: {:?}", ignore)
IgnoredToken ==
    /\ MusicRunning
    /\ \E t \in IgnoredTokens :
           /\ Take(t)
           /\ squeezed' = IF t.kind = "Squeeze" THEN TRUE
                          ELSE IF t.kind = "SmallL" THEN FALSE
                          ELSE squeezed
    /\ UNCHANGED <<bars, bar, count, pc, ret>>
    /\ MusicUntouched

\* The tokens are used up: Ok(Music { repeat_start: None, bars, raw })
EndOfTokens ==
    /\ fn = "parse_music" /\ pc = "loop"
    /\ pc' = "done"
    /\ ret' = Ok([repeat_start |-> None, bars |-> bars])
    /\ UNCHANGED <<bars, bar, count, consumed, token, squeezed>>
    /\ MusicUntouched

NextMusic ==
    \/ BarClosingToken
    \/ ChordToken
    \/ AlternateChordToken
    \/ RepeatMeasureToken
    \/ RepeatTwoMeasuresToken
    \/ BarAndRepeatToken
    \/ SpaceToken
    \/ IgnoredToken
    \/ EndOfTokens

SpecMusic == InitMusic /\ [][NextMusic]_vars

(***************************************************************************)
(* Bar parser: properties.                                                 *)
(***************************************************************************)

\* The loop's current token is of kind k.
TokenIs(k) == token # None /\ token.kind = k

MusicReturned == fn = "parse_music" /\ pc = "done"

\* Bar b holds a chord placed by a Chord token.
HoldsChord(b) ==
    \E i \in 1..Len(b.counts) :
        \E j \in 1..Len(b.counts[i]) : b.counts[i][j].kind = "Chord"

EmptyBar(b) == \A i \in 1..Len(b.counts) : b.counts[i] = <<>>

\* C7: a RepeatMeasure token met while no bar has been sealed, and a
\* RepeatTwoMeasures token met while fewer than two bars have been sealed,
\* end the parse with an error; no Music is returned.  (Neither handler
\* changes the number of sealed bars when it fails, and RepeatTwoMeasures
\* leaves at least three when it succeeds, so the bar list after the token
\* tells what it was before.)
C7_RepeatWithoutHistoryIsAnError ==
    (/\ fn = "parse_music"
     /\ \/ TokenIs("RepeatMeasure") /\ bars = <<>>
        \/ TokenIs("RepeatTwoMeasures") /\ Len(bars) < 2)
    => (pc = "done" /\ ret.tag = "Err")

\* RepeatTwoMeasures refused with exactly one sealed bar.
C7_Witness ==
    /\ fn = "parse_music"
    /\ TokenIs("RepeatTwoMeasures")
    /\ Len(bars) = 1
    /\ pc = "done"
    /\ ret = Err("Repeat 2 measures at beginning of song")

\* RepeatMeasure refused before any bar is sealed, with a bar open.
C7_WitnessRepeatMeasure ==
    /\ fn = "parse_music"
    /\ TokenIs("RepeatMeasure")
    /\ bars = <<>>
    /\ bar # None
    /\ ret = Err("Repeat measure at beginning of song")

\* C8: the bar parser never aborts, whatever the tokens.
C8_BarParserNeverAborts == fn = "parse_music" => pc # "panic"

\* The three aborts C8 names, each reached.
C8_ChordBeyondSlots ==
    ~(pc = "panic" /\ TokenIs("Chord") /\ count = Len(bar.val.counts))
C8_AlternateChordBeyondSlots ==
    ~(pc = "panic" /\ TokenIs("AlternateChord")
      /\ count = Len(bar.val.counts))
C8_BarAndRepeatWithoutBars ==
    ~(pc = "panic" /\ TokenIs("BarAndRepeat") /\ bars = <<>> /\ bar = None)

\* C9: when the tokens end with a bar open, the Music returned ends with
\* that bar if it holds a chord, and is the sealed bars alone if the open
\* bar is empty.
C9_OpenBarIsKeptAtEnd ==
    (MusicReturned /\ ret.tag = "Ok" /\ bar # None)
    => /\ HoldsChord(bar.val) => ret.val.bars = Append(bars, bar.val)
       /\ EmptyBar(bar.val) => ret.val.bars = bars

\* What the code does instead: the Music returned is the sealed bars.
OpenBarIsDroppedAtEnd ==
    (MusicReturned /\ ret.tag = "Ok") => ret.val.bars = bars

\* C10: a Chord token met with no bar open opens a bar of as many slots as
\* the time signature's numerator, stores the chord in the cursor's slot
\* (the first), and advances the cursor by 2, or by 1 if the last of the
\* Squeeze and Unsqueeze tokens before it was a Squeeze.
C10_ChordOpensBarAndAdvances ==
    [][(/\ fn = "parse_music"
        /\ consumed' = consumed + 1
        /\ token'.kind = "Chord"
        /\ bar = None)
       => (/\ bar' # None
           /\ Len(bar'.val.counts) = time_signature.top
           /\ bar'.val.counts[1] = <<ChordElement(token'.chord)>>
           /\ count' = IF squeezed THEN 1 ELSE 2)]_vars

\* What the code does: the same, but the cursor always advances by 1.
ChordOpensBarAndAdvancesByOne ==
    [][(/\ fn = "parse_music"
        /\ consumed' = consumed + 1
        /\ token'.kind = "Chord"
        /\ bar = None)
       => (/\ bar' # None
           /\ Len(bar'.val.counts) = time_signature.top
           /\ bar'.val.counts[1] = <<ChordElement(token'.chord)>>
           /\ count' = 1)]_vars

\* A token was taken in this step.
TokenTaken == fn = "parse_music" /\ consumed' = consumed + 1

\* The tokens that open a bar of Bar::new(time_signature.top) when none is
\* open.
OpeningKinds == {"Chord", "AlternateChord", "Space"}

\* C11: the bar opened right after a TimeSignature(top, bottom) token has
\* exactly top slots, and the TimeSignature token itself leaves the open bar
\* and the sealed bars as they were.
C11_TimeSignatureSizesNextBar ==
    [][TokenTaken =>
         /\ token'.kind = "TimeSignature" => (bars' = bars /\ bar' = bar)
         /\ (/\ TokenIs("TimeSignature")
             /\ token'.kind \in OpeningKinds
             /\ bar = None)
            => (bar' # None /\ Len(bar'.val.counts) = token.top)]_vars

\* What the code does: every bar, open or sealed, has the 4 slots of the
\* default signature, whatever TimeSignature tokens came before.
EveryBarHasFourSlots ==
    fn = "parse_music" =>
        /\ \A i \in 1..Len(bars) : Len(bars[i].counts) = 4
        /\ bar # None => Len(bar.val.counts) = 4

\* The half of C11 that holds: a TimeSignature token changes no bar.
TimeSignatureChangesNoBar ==
    [][(TokenTaken /\ token'.kind = "TimeSignature")
       => (bars' = bars /\ bar' = bar)]_vars

\* C12: sealed bars never change: in every step of the bar parser the bar
\* list of before is a prefix of the bar list of after, so each sealed bar
\* keeps its slots and their contents, whatever is done to the open bar,
\* a clone of a sealed bar included.
C12_SealedBarsAreImmutable ==
    [][fn = "parse_music"
       => (Len(bars') >= Len(bars) /\ SubSeq(bars', 1, Len(bars)) = bars)]_vars

\* A chord was pushed into the clone of the last sealed bar: the open bar
\* has two chords in its first slot, the sealed bar it was cloned from one.
C12_Witness ==
    /\ fn = "parse_music" /\ pc = "loop"
    /\ TokenIs("Chord")
    /\ bars # <<>> /\ bar # None
    /\ Len(bars[Len(bars)].counts[1]) = 1
    /\ bar.val = Push(bars[Len(bars)], 0, ChordElement(token.chord))

(***************************************************************************)
(* Chord model serialization: types.rs, the Display implementations.  A    *)
(* text is a sequence of one-character strings, as in the lexer.           *)
(***************************************************************************)

\* impl Display for Note
NoteText ==
    [ AFlat |-> <<"A", "b">>, A |-> <<"A">>, ASharp |-> <<"A", "#">>,
      BFlat |-> <<"B", "b">>, B |-> <<"B">>,
      CFlat |-> <<"C", "b">>, C |-> <<"C">>, CSharp |-> <<"C", "#">>,
      DFlat |-> <<"D", "b">>, D |-> <<"D">>, DSharp |-> <<"D", "#">>,
      EFlat |-> <<"E", "b">>, E |-> <<"E">>,
      F |-> <<"F">>, FSharp |-> <<"F", "#">>,
      GFlat |-> <<"G", "b">>, G |-> <<"G">>, GSharp |-> <<"G", "#">>,
      W |-> <<"W">> ]

\* impl Display for Number
NumberText ==
    [ Two |-> <<"2">>, Three |-> <<"3">>, Five |-> <<"5">>, Six |-> <<"6">>,
      Seven |-> <<"7">>, Nine |-> <<"9">>, Eleven |-> <<"1", "1">>,
      Thirteen |-> <<"1", "3">> ]

\* match n { Some(n) => format!("{}", n), None => "" }
OptionNumberText(n) == IF n = None THEN <<>> ELSE NumberText[n.val]

\* The symbol each Flavor(Option<Number>) arm of Display for Flavor writes
\* before the number.
FlavorSymbol ==
    [ Augmented |-> <<"+">>, Diminished |-> <<"o">>,
      DiminishedMajor |-> <<"o", "^">>, HalfDiminished |-> <<"h">>,
      Minor |-> <<"-">>, MinorMajor |-> <<"-", "^">>, Dominant |-> <<>>,
      Major |-> <<"^">> ]

\* impl Display for Flavor
FlavorText(fl) ==
    IF fl.kind = "SixthNinth" THEN <<"6", "9">>
    ELSE IF fl.kind = "MinorSixthNinth" THEN <<"m", "6", "9">>
    ELSE FlavorSymbol[fl.kind] \o OptionNumberText(fl.n)

\* impl Display for AlteredNotes
AlteredNotesText(a) ==
    IF a.kind = "Flat" THEN <<"b">> \o NumberText[a.n]
    ELSE IF a.kind = "Sharp" THEN <<"#">> \o NumberText[a.n]
    ELSE IF a.kind = "Add" THEN <<"a", "d", "d">> \o NumberText[a.n]
    ELSE IF a.kind = "Sus" THEN <<"s", "u", "s">>
    ELSE <<"a", "l", "t">>

\* altered_notes.iter().map(|x| x.to_string()).collect::<String>()
RECURSIVE AlteredNotesListText(_)
AlteredNotesListText(an) ==
    IF an = <<>> THEN <<>>
    ELSE AlteredNotesText(Head(an)) \o AlteredNotesListText(Tail(an))

\* impl Display for Chord
ChordText(c) ==
    IF c.nc THEN <<"N", ".", "C", ".">>
    ELSE NoteText[c.root] \o FlavorText(c.flavor)
         \o AlteredNotesListText(c.altered_notes)
         \o (IF c.bass_note = None THEN <<>>
             ELSE <<"/">> \o NoteText[c.bass_note.val])

(***************************************************************************)
(* Renderer: parse.rs, Display for WrittenBar and Display for Music.       *)
(***************************************************************************)

Spaces(n) == [k \in 1..n |-> " "]

\* format!("{}", n) of a u32
RECURSIVE DecimalText(_)
DecimalText(n) ==
    IF n < 10 THEN <<Digits[n + 1]>>
    ELSE DecimalText(n \div 10) \o <<Digits[(n % 10) + 1]>>

\* format!("{:>6}", s): s after the spaces that bring it to 6 characters.
RightAligned6(s) == IF Len(s) >= 6 THEN s ELSE Spaces(6 - Len(s)) \o s

\* WrittenBar::new()
WrittenBar_new ==
    [repeat_start |-> FALSE, repeat_end |-> FALSE, double_start |-> FALSE,
     double_end |-> FALSE, elements |-> <<>>]

\* WrittenBar::repeat()
WrittenBar_repeat ==
    [repeat_start |-> FALSE, repeat_end |-> FALSE, double_start |-> FALSE,
     double_end |-> FALSE, elements |-> << [kind |-> "RepeatMeasure"] >>]

\* What the match in Display for WrittenBar writes for an element.
ElementText(e) ==
    IF e.kind = "SectionMarker" THEN <<"[", e.s, "]">>
    ELSE IF e.kind = "TimeSignature"
         THEN DecimalText(e.top) \o <<"/">> \o DecimalText(e.bottom)
    ELSE IF e.kind = "Chord"
         THEN IF e.width = "Narrow" THEN RightAligned6(ChordText(e.chord))
              ELSE RightAligned6(ChordText(e.chord)) \o Spaces(6)
    ELSE IF e.kind = "NumberedEnding" THEN <<"N">> \o DecimalText(e.n)
    ELSE Spaces(12) \o <<"%">> \o Spaces(11)

\* What the match adds to count for an element.
ElementCount(e) ==
    IF e.kind = "Chord" THEN (IF e.width = "Narrow" THEN 1 ELSE 2) ELSE 0

\* The for loop over self.elements, from element at on: the text written,
\* a space before every element but the first.
RECURSIVE ElementsText(_, _)
ElementsText(elements, at) ==
    IF at > Len(elements) THEN <<>>
    ELSE (IF at > 1 THEN <<" ">> ELSE <<>>)
         \o ElementText(elements[at]) \o ElementsText(elements, at + 1)

\* count after the for loop.
RECURSIVE ElementsCount(_, _)
ElementsCount(elements, at) ==
    IF at > Len(elements) THEN 0
    ELSE ElementCount(elements[at]) + ElementsCount(elements, at + 1)

\* while (count < 4) { write!(f, "      ")?; count += 1; }
Padding(cnt) == IF cnt < 4 THEN Spaces(6 * (4 - cnt)) ELSE <<>>

\* impl Display for WrittenBar
WrittenBarText(b) ==
    <<"|">>
    \o (IF b.double_start THEN <<"|">> ELSE <<>>)
    \o (IF b.repeat_start THEN <<":">> ELSE <<>>)
    \o <<" ">>
    \o ElementsText(b.elements, 1)
    \o Padding(ElementsCount(b.elements, 1))
    \o (IF b.repeat_end THEN <<":">> ELSE <<>>)
    \o (IF b.double_end THEN <<"|">> ELSE <<>>)

WideChord(c) == [kind |-> "Chord", chord |-> c, width |-> "Wide"]
NarrowChord(c) == [kind |-> "Chord", chord |-> c, width |-> "Narrow"]

\* The bars the charts to render are made of: a bar with a section marker
\* and one wide chord, a repeated bar, and a bar between repeat and double
\* bar signs with a numbered ending and three narrow chords.
BarChoices ==
    { [WrittenBar_new EXCEPT
          !.elements = << [kind |-> "SectionMarker", s |-> "A"],
                          WideChord(ChordC) >>],
      WrittenBar_repeat,
      [WrittenBar_new EXCEPT
          !.repeat_start = TRUE, !.double_end = TRUE,
          !.elements = << [kind |-> "NumberedEnding", n |-> 1],
                          NarrowChord(ChordF7), NarrowChord(NC),
                          NarrowChord(ChordC) >>] }

MaxBars == 8

\* The Music values: every sequence of up to MaxBars of the bars above.
Charts == UNION {[1..n -> BarChoices] : n \in 0..MaxBars}

\* A line break every fifth bar instead of every fourth.
LineBreakBefore_every_fifth(at) == at % 5 = 0 /\ at > 0

\* if i % 4 == 0 && i > 0 { writeln!(f, "|")?; }
LineBreakBefore(at) == at % 4 = 0 /\ at > 0

InitDisplay ==
    /\ fn = "fmt"
    /\ pc = "loop"
    /\ written_bars \in Charts
    /\ bar_index = 0
    /\ output = <<>>
    /\ written_bar = None
    /\ width = "Wide"
    /\ input = <<>>
    /\ pass = 1
    /\ text = <<>>
    /\ result = <<>>
    /\ ret = NoRet
    /\ IdleUnescape /\ IdleTokens /\ IdleMusic

DisplayUntouched ==
    UNCHANGED <<fn, input, pass, text, result, state, num, tokens, musicVars,
                written_bars, written_bar, width>>

\* One turn of `for (i, bar) in self.written_bars.iter().enumerate()`.
DisplayBar ==
    /\ fn = "fmt" /\ pc = "loop"
    /\ bar_index < Len(written_bars)
    /\ output' = output
                 \o (IF LineBreakBefore(bar_index) THEN <<"|", "\n">> ELSE <<>>)
                 \o WrittenBarText(written_bars[bar_index + 1])
    /\ bar_index' = bar_index + 1
    /\ UNCHANGED <<pc, ret>>
    /\ DisplayUntouched

\* Ok(())
DisplayReturn ==
    /\ fn = "fmt" /\ pc = "loop"
    /\ bar_index = Len(written_bars)
    /\ pc' = "done"
    /\ ret' = Ok(<<>>)
    /\ UNCHANGED <<bar_index, output>>
    /\ DisplayUntouched

NextDisplay == DisplayBar \/ DisplayReturn

SpecDisplay == InitDisplay /\ [][NextDisplay]_vars

(***************************************************************************)
(* Renderer: properties.                                                   *)
(***************************************************************************)

Newlines(t) == {p \in 1..Len(t) : t[p] = "\n"}

\* A text has one line more than it has line breaks.
NumLines(t) == Cardinality(Newlines(t)) + 1

\* The place of the k-th line break of t; 0 for k = 0 and one past the end
\* of t for the line break that would end the last line.
LineBreakAt(t, k) ==
    IF k = 0 THEN 0
    ELSE IF k > Cardinality(Newlines(t)) THEN Len(t) + 1
    ELSE CHOOSE p \in Newlines(t) :
             Cardinality({q \in Newlines(t) : q < p}) = k - 1

\* Line k of t, counted from 0, without its line break.
Line(t, k) == SubSeq(t, LineBreakAt(t, k) + 1, LineBreakAt(t, k + 1) - 1)

EndsWith(t, s) ==
    Len(t) >= Len(s) /\ SubSeq(t, Len(t) - Len(s) + 1, Len(t)) = s

\* The texts of the bars first..last of the chart (counted from 0), one
\* after the other.
RECURSIVE BarsText(_, _)
BarsText(first, last) ==
    IF first > last THEN <<>>
    ELSE WrittenBarText(written_bars[first + 1]) \o BarsText(first + 1, last)

Min(a, b) == IF a < b THEN a ELSE b

\* The bars line k is to hold: bars 4k .. 4k+3, as far as there are any.
BarsOfLine(k) == BarsText(4 * k, Min(4 * k + 3, Len(written_bars) - 1))

DisplayReturned == fn = "fmt" /\ pc = "done"

\* C13: bar i is written on line floor(i / 4): when it has just been
\* written, the output ends with its text and holds floor(i / 4) line
\* breaks; and the finished output of n > 0 bars has ceil(n / 4) lines, line
\* k holding the bars 4k .. 4k+3 (as far as there are any) and nothing else
\* but the closing bar line.
C13_FourBarsToALine ==
    /\ (fn = "fmt" /\ bar_index > 0)
       => /\ Cardinality(Newlines(output)) = (bar_index - 1) \div 4
          /\ EndsWith(output, WrittenBarText(written_bars[bar_index]))
    /\ (DisplayReturned /\ written_bars # <<>>)
       => /\ NumLines(output) = (Len(written_bars) + 3) \div 4
          /\ \A k \in 0..(NumLines(output) - 1) :
                 Line(output, k) \in {BarsOfLine(k), BarsOfLine(k) \o <<"|">>}

\* Six bars written: a full line and a line of two.
C13_Witness ==
    /\ DisplayReturned
    /\ Len(written_bars) = 6
    /\ NumLines(output) = 2
    /\ Line(output, 1) = BarsText(4, 5)

\* C14: every line of the finished output, the last one included, is its
\* bars followed by a closing "|".
C14_EveryLineIsClosed ==
    (DisplayReturned /\ written_bars # <<>>)
    => \A k \in 0..(NumLines(output) - 1) :
           Line(output, k) = BarsOfLine(k) \o <<"|">>

\* What the code does: every line but the last is closed, the last line
\* ends with its last bar.
OnlyLastLineIsOpen ==
    (DisplayReturned /\ written_bars # <<>>)
    => \A k \in 0..(NumLines(output) - 1) :
           Line(output, k) =
               IF k < NumLines(output) - 1 THEN BarsOfLine(k) \o <<"|">>
               ELSE BarsOfLine(k)

(***************************************************************************)
(* Chord quality: Display for Flavor (types.rs) followed by the lexer's    *)
(* flavor rule (tokenize.rs) on what it wrote.                             *)
(***************************************************************************)

\* enum Number
Numbers == {"Two", "Three", "Five", "Six", "Seven", "Nine", "Eleven", "Thirteen"}

\* The variants of Flavor that carry an Option<Number>.
NumberedFlavorKinds ==
    {"Augmented", "Diminished", "DiminishedMajor", "HalfDiminished", "Minor",
     "MinorMajor", "Dominant", "Major"}

\* enum Flavor: every value.
Flavors ==
    {[kind |-> k, n |-> n] :
        k \in NumberedFlavorKinds, n \in {None} \cup {Some(x) : x \in Numbers}}
    \cup {[kind |-> "SixthNinth"], [kind |-> "MinorSixthNinth"]}

InitFlavor ==
    /\ fn = "flavor"
    /\ pc = "display"
    /\ input \in Flavors
    /\ pass = 1
    /\ text = <<>>
    /\ result = <<>>
    /\ ret = NoRet
    /\ IdleUnescape /\ IdleTokens /\ IdleMusic /\ IdleWritten

FlavorUntouched ==
    UNCHANGED <<fn, input, pass, result, state, num, tokens, musicVars,
                writtenVars>>

\* flavor.to_string()
FlavorDisplay ==
    /\ fn = "flavor" /\ pc = "display"
    /\ text' = FlavorText(input)
    /\ pc' = "parse"
    /\ UNCHANGED ret
    /\ FlavorUntouched

\* flavor()(text)
FlavorParse ==
    /\ fn = "flavor" /\ pc = "parse"
    /\ \E r \in {flavor(text)} : ret' = r
    /\ pc' = "done"
    /\ UNCHANGED text
    /\ FlavorUntouched

NextFlavor == FlavorDisplay \/ FlavorParse

SpecFlavor == InitFlavor /\ [][NextFlavor]_vars

\* C15: for every Flavor value, the flavor rule parses the text its
\* serialization writes back to the same value, leaving nothing over.
C15_FlavorRoundTrip ==
    (fn = "flavor" /\ pc = "done") => ret = Match(input, <<>>)

\* What holds: every Flavor value but MinorSixthNinth makes the round trip;
\* MinorSixthNinth is written "m69", of which the flavor rule takes nothing
\* (it answers Dominant without a number).
FlavorRoundTripButMinorSixthNinth ==
    (fn = "flavor" /\ pc = "done") =>
        IF input.kind = "MinorSixthNinth"
        THEN /\ text = <<"m", "6", "9">>
             /\ ret = Match([kind |-> "Dominant", n |-> None], text)
        ELSE ret = Match(input, <<>>)

(***************************************************************************)
(* Bar parser: the repeat shorthands and the bar-closing tokens.           *)
(***************************************************************************)

LastBar(bs) == bs[Len(bs)]

\* The open bar is a copy of the last sealed bar.
CloneOfLastIsOpen == bars # <<>> /\ bar = Some(LastBar(bars))

IgnoredKinds == {t.kind : t \in IgnoredTokens}

\* C16: a BarAndRepeat token that finds a bar open or sealed appends the
\* open bar (if any) to the bar list and opens a copy of the bar that is
\* then last, with the cursor at 0; the tokens without effect on the bars
\* leave both as they are; and a bar-closing token that finds a copy of the
\* last sealed bar open leaves the last two sealed bars equal.
C16_BarAndRepeatOpensClone ==
    [][TokenTaken =>
         /\ (token'.kind = "BarAndRepeat" /\ (bar # None \/ bars # <<>>))
            => /\ pc' = "loop"
               /\ bars' = IF bar # None THEN Append(bars, bar.val) ELSE bars
               /\ bar' = Some(LastBar(bars'))
               /\ count' = 0
         /\ token'.kind \in IgnoredKinds => (bars' = bars /\ bar' = bar)
         /\ (token'.kind \in BarClosingKinds /\ CloneOfLastIsOpen)
            => /\ Len(bars') = Len(bars) + 1
               /\ bars'[Len(bars')] = bars'[Len(bars') - 1]
               /\ bar' = None]_vars

\* BarAndRepeat has sealed an open bar holding a chord and opened its copy.
C16_Witness ==
    /\ fn = "parse_music" /\ pc = "loop"
    /\ TokenIs("BarAndRepeat")
    /\ Len(bars) = 1
    /\ HoldsChord(bars[1])
    /\ CloneOfLastIsOpen
    /\ count = 0

(***************************************************************************)
(* Written bars: parse.rs parse_music, the for loop over the tokens.  As   *)
(* for the bar parser of tokenize.rs, which token comes next is left open. *)
(***************************************************************************)

\* The arms that set a flag of written_bar.
FlagKinds == {"RepeatStart", "RepeatEnd", "DoubleBarStart", "DoubleBarEnd"}

\* The arms that push an element: the tokens and the element pushed for
\* each (a chord is pushed with the width in force).
ElementTokens ==
    { [kind |-> "SectionMarker", s |-> "A"],
      [kind |-> "TimeSignature", top |-> 3, bottom |-> 4],
      [kind |-> "NumberedEnding", n |-> 1],
      [kind |-> "Chord", chord |-> ChordC] }

\* Token::Comma | Token::Space | Token::Blank, and the two width tokens.
SpacerKinds == {"Comma", "Space", "Blank", "Squeeze", "Unsqueeze"}

\* Tokens of the arm `_ => panic!("Unexpected token: {:?}", token)`.
UnexpectedKinds == {"RepeatMeasure", "RepeatTwoMeasures", "Coda", "Fermata"}

MaxWrittenTokens == 4

InitWritten ==
    /\ fn = "parse::parse_music"
    /\ pc = "loop"
    /\ written_bars = <<>>
    /\ written_bar = WrittenBar_new
    /\ width = "Wide"
    /\ bar_index = 0
    /\ output = <<>>
    /\ input = <<>>
    /\ pass = 1
    /\ text = <<>>
    /\ result = <<>>
    /\ ret = NoRet
    /\ IdleUnescape /\ IdleTokens /\ IdleMusic

\* The for loop has another token.
WrittenRunning ==
    fn = "parse::parse_music" /\ pc = "loop" /\ consumed < MaxWrittenTokens

WrittenUntouched ==
    UNCHANGED <<fn, input, pass, text, result, state, num, tokens, bars, bar,
                count, time_signature, squeezed, bar_index, output>>

\* Token::RepeatStart, RepeatEnd, DoubleBarStart, DoubleBarEnd
WrittenFlagToken ==
    /\ WrittenRunning
    /\ \E k \in FlagKinds :
           /\ Take(Tok(k))
           /\ written_bar' =
                  IF k = "RepeatStart"
                  THEN [written_bar EXCEPT !.repeat_start = TRUE]
                  ELSE IF k = "RepeatEnd"
                  THEN [written_bar EXCEPT !.repeat_end = TRUE]
                  ELSE IF k = "DoubleBarStart"
                  THEN [written_bar EXCEPT !.double_start = TRUE]
                  ELSE [written_bar EXCEPT !.double_end = TRUE]
    /\ UNCHANGED <<written_bars, width, pc, ret>>
    /\ WrittenUntouched

\* Token::SectionMarker, TimeSignature, Chord, NumberedEnding
WrittenElementToken ==
    /\ WrittenRunning
    /\ \E t \in ElementTokens :
           /\ Take(t)
           /\ written_bar' =
                  [written_bar EXCEPT !.elements =
                      Append(@, IF t.kind = "Chord"
                                THEN [kind |-> "Chord", chord |-> t.chord,
                                      width |-> width]
                                ELSE t)]
    /\ UNCHANGED <<written_bars, width, pc, ret>>
    /\ WrittenUntouched

\* Token::Comma | Token::Space | Token::Blank; Token::Squeeze; Token::Unsqueeze
WrittenSpacerToken ==
    /\ WrittenRunning
    /\ \E k \in SpacerKinds :
           /\ Take(Tok(k))
           /\ width' = IF k = "Squeeze" THEN "Narrow"
                       ELSE IF k = "Unsqueeze" THEN "Wide"
                       ELSE width
    /\ UNCHANGED <<written_bars, written_bar, pc, ret>>
    /\ WrittenUntouched

\* Token::Bar; Token::BarAndRepeat
WrittenBarToken ==
    /\ WrittenRunning
    /\ \E k \in {"Bar", "BarAndRepeat"} :
           /\ Take(Tok(k))
           /\ written_bar' = IF k = "Bar" THEN WrittenBar_new
                             ELSE WrittenBar_repeat
    /\ written_bars' = Append(written_bars, written_bar)
    /\ UNCHANGED <<width, pc, ret>>
    /\ WrittenUntouched

\* Token::FinalBar: push, then break, and the function returns what follows
\* the loop.
WrittenFinalBarToken ==
    /\ WrittenRunning
    /\ Take(Tok("FinalBar"))
    /\ written_bars' = Append(written_bars, written_bar)
    /\ pc' = "done"
    /\ ret' = Ok([written_bars |-> Append(written_bars, written_bar)])
    /\ UNCHANGED <<written_bar, width>>
    /\ WrittenUntouched

\* _ => panic!("Unexpected token: {:?}", token)
WrittenUnexpectedToken ==
    /\ WrittenRunning
    /\ \E k \in UnexpectedKinds : Take(Tok(k))
    /\ pc' = "panic"
    /\ UNCHANGED <<written_bars, written_bar, width, ret>>
    /\ WrittenUntouched

\* The tokens are used up: Ok(Music { written_bars, raw })
WrittenEndOfTokens ==
    /\ fn = "parse::parse_music" /\ pc = "loop"
    /\ pc' = "done"
    /\ ret' = Ok([written_bars |-> written_bars])
    /\ UNCHANGED <<written_bars, written_bar, width, consumed, token>>
    /\ WrittenUntouched

NextWritten ==
    \/ WrittenFlagToken
    \/ WrittenElementToken
    \/ WrittenSpacerToken
    \/ WrittenBarToken
    \/ WrittenFinalBarToken
    \/ WrittenUnexpectedToken
    \/ WrittenEndOfTokens

SpecWritten == InitWritten /\ [][NextWritten]_vars

\* A token was taken by parse.rs parse_music in this step.
WrittenTokenTaken == fn = "parse::parse_music" /\ consumed' = consumed + 1

\* C17: a FinalBar token closes the bar being filled as a Bar token does and
\* the parse goes on, so that what follows it reaches the result.
C17_FinalBarDoesNotEndParsing ==
    [][(WrittenTokenTaken /\ token'.kind = "FinalBar")
       => /\ written_bars' = Append(written_bars, written_bar)
          /\ written_bar' = WrittenBar_new
          /\ pc' = "loop"]_vars

\* What parse.rs does: FinalBar ends the parse, the Music returned ends with
\* the bar the FinalBar closed, and no later token is taken.
FinalBarEndsWrittenParse ==
    (fn = "parse::parse_music" /\ TokenIs("FinalBar"))
    => (pc = "done" /\ ret = Ok([written_bars |-> written_bars]))

\* C18: a bar-closing token (Bar, FinalBar, DoubleBarEnd, RepeatEnd) that
\* finds a bar with content appends exactly that bar to the bar list and
\* leaves no content open; one that finds nothing open changes nothing.
C18_ClosingTokenSealsOpenBar ==
    [][(WrittenTokenTaken /\ token'.kind \in BarClosingKinds)
       => IF written_bar # WrittenBar_new
          THEN /\ written_bars' = Append(written_bars, written_bar)
               /\ token'.kind # "FinalBar" => written_bar' = WrittenBar_new
          ELSE /\ written_bars' = written_bars
               /\ written_bar' = written_bar]_vars

\* The same for the bar parser of tokenize.rs, where it holds: the open bar
\* is appended, no bar is left open and the cursor is 0; with no bar open
\* the bar list, the cursor and the time signature stay, and in both cases
\* the parse goes on.
BarClosingSealsOpenBar ==
    [][(TokenTaken /\ token'.kind \in BarClosingKinds)
       => /\ pc' = "loop"
          /\ time_signature' = time_signature
          /\ IF bar # None
             THEN bars' = Append(bars, bar.val) /\ bar' = None /\ count' = 0
             ELSE bars' = bars /\ bar' = bar /\ count' = count]_vars

\* C19: a RepeatMeasure token that finds a sealed bar makes the open bar a
\* copy of the last sealed bar and the cursor 0 and leaves the bar list as it
\* is; a bar-closing token taken right after it appends a bar equal to the
\* bar that was last.
C19_RepeatMeasureCopiesLastBar ==
    [][TokenTaken =>
         /\ (token'.kind = "RepeatMeasure" /\ bars # <<>>)
            => /\ pc' = "loop"
               /\ bars' = bars
               /\ bar' = Some(LastBar(bars))
               /\ count' = 0
         /\ (TokenIs("RepeatMeasure") /\ token'.kind \in BarClosingKinds)
            => bars' = Append(bars, LastBar(bars))]_vars

\* A bar-closing token has sealed the copy RepeatMeasure made of the second
\* of two different bars.
C19_Witness ==
    /\ fn = "parse_music" /\ pc = "loop"
    /\ token # None /\ token.kind \in BarClosingKinds
    /\ Len(bars) = 3
    /\ bars[1] # bars[2]
    /\ bars[3] = bars[2]
    /\ HoldsChord(bars[3])
    /\ bar = None

\* C20: a RepeatTwoMeasures token that finds the sealed bars b1 .. bn, n >= 2,
\* appends a copy of b(n-1) to the bar list and makes a copy of bn the open
\* bar, with the cursor at 0; after a bar-closing token taken right after it
\* the bar list ends with b(n-1), bn, b(n-1), bn.
C20_RepeatTwoMeasuresCopiesLastTwo ==
    [][TokenTaken =>
         /\ (token'.kind = "RepeatTwoMeasures" /\ Len(bars) >= 2)
            => /\ pc' = "loop"
               /\ bars' = Append(bars, bars[Len(bars) - 1])
               /\ bar' = Some(bars[Len(bars)])
               /\ count' = 0
         /\ (TokenIs("RepeatTwoMeasures") /\ pc = "loop"
             /\ token'.kind \in BarClosingKinds)
            => /\ Len(bars') = Len(bars) + 1
               /\ Len(bars') >= 4
               /\ bars'[Len(bars')] = bars'[Len(bars') - 2]
               /\ bars'[Len(bars') - 1] = bars'[Len(bars') - 3]
               /\ SubSeq(bars', 1, Len(bars)) = bars]_vars

\* Two different bars, the RepeatTwoMeasures token and a bar-closing token:
\* four sealed bars b1, b2, b1, b2.
C20_Witness ==
    /\ fn = "parse_music" /\ pc = "loop"
    /\ token # None /\ token.kind \in BarClosingKinds
    /\ consumed = 6
    /\ Len(bars) = 4
    /\ bars[1] # bars[2]
    /\ bars[3] = bars[1]
    /\ bars[4] = bars[2]
    /\ HoldsChord(bars[1]) /\ HoldsChord(bars[2])
    /\ bar = None

(***************************************************************************)
(* Bar parser: the AlternateChord token after a Chord token.               *)
(***************************************************************************)

\* An AlternateChord token is taken right after a Chord token, and neither
\* aborted.  The Chord token left its chord in slot count - 1 (counts[count]
\* counted from 1) and the cursor on slot count.
AlternateAfterChord ==
    /\ TokenTaken
    /\ TokenIs("Chord") /\ pc = "loop"
    /\ token'.kind = "AlternateChord" /\ pc' = "loop"

\* C21: an AlternateChord token that follows a Chord token is stored in the
\* slot of that preceding chord, and leaves the cursor unchanged.
C21_AlternateChordSharesSlot ==
    [][AlternateAfterChord =>
         /\ bar # None /\ bar' # None /\ count >= 1
         /\ bar'.val = Push(bar.val, count - 1,
                            AlternateChordElement(token'.chord))
         /\ count' = count]_vars

\* What the code does: the cursor is unchanged, but the alternate chord goes
\* to the slot the cursor is on, which is the slot after the chord's.
AlternateChordGoesToCursorSlot ==
    [][AlternateAfterChord =>
         /\ bar # None /\ bar' # None /\ count >= 1
         /\ bar'.val = Push(bar.val, count,
                            AlternateChordElement(token'.chord))
         /\ bar'.val.counts[count] = bar.val.counts[count]
         /\ count' = count]_vars

(***************************************************************************)
(* Renderer: the padding of a bar.                                         *)
(***************************************************************************)

\* The bar written last.
BarWritten == written_bars[bar_index]

\* The slots a bar's elements take: 2 for a wide chord, 1 for a narrow one.
SlotsOf(b) ==
    2 * Cardinality({p \in 1..Len(b.elements) :
                        b.elements[p].kind = "Chord"
                        /\ b.elements[p].width = "Wide"})
    + Cardinality({p \in 1..Len(b.elements) :
                      b.elements[p].kind = "Chord"
                      /\ b.elements[p].width = "Narrow"})

\* The signs before and after a bar's elements and padding.
BarOpening(b) ==
    <<"|">> \o (IF b.double_start THEN <<"|">> ELSE <<>>)
    \o (IF b.repeat_start THEN <<":">> ELSE <<>>) \o <<" ">>
BarEnding(b) ==
    (IF b.repeat_end THEN <<":">> ELSE <<>>)
    \o (IF b.double_end THEN <<"|">> ELSE <<>>)

\* The empty six-character cells written between a bar's elements and its
\* ending signs: the text t of bar b is opening, elements, n cells, ending.
PaddedByCells(b, t, n) ==
    t = BarOpening(b) \o ElementsText(b.elements, 1) \o Spaces(6 * n)
        \o BarEnding(b)

IsRepeatBar(b) == b.elements = << [kind |-> "RepeatMeasure"] >>

\* A bar with the signs of b whose four slots each hold a narrow chord.
FourSlotsOfChords(b) ==
    [b EXCEPT !.elements = [p \in 1..4 |-> NarrowChord(ChordC)]]

\* The bar of bar_index has just been written: the output ends with text t.
JustWritten(t) == fn = "fmt" /\ bar_index > 0 /\ EndsWith(output, t)

\* Padding: a bar of k < 4 slots gets 4 - k empty cells, a bar of 4 or more
\* slots none.
PaddingFillsToFourSlots ==
    (fn = "fmt" /\ bar_index > 0)
    => \E t \in {WrittenBarText(BarWritten)} :
           /\ JustWritten(t)
           /\ PaddedByCells(BarWritten, t,
                            IF SlotsOf(BarWritten) < 4
                            THEN 4 - SlotsOf(BarWritten) ELSE 0)

\* C22: every bar written is padded to four slots (a bar of k < 4 slots,
\* counting 2 for a wide and 1 for a narrow chord, gets exactly 4 - k empty
\* six-character cells, a bar of 4 or more slots none), and a repeat-measure
\* bar is written no wider than a bar of four slots of chords.
C22_BarsArePaddedToFourSlots ==
    (fn = "fmt" /\ bar_index > 0)
    => \E t \in {WrittenBarText(BarWritten)} :
           /\ JustWritten(t)
           /\ PaddedByCells(BarWritten, t,
                            IF SlotsOf(BarWritten) < 4
                            THEN 4 - SlotsOf(BarWritten) ELSE 0)
           /\ IsRepeatBar(BarWritten)
              => Len(t) <= Len(WrittenBarText(FourSlotsOfChords(BarWritten)))

\* What the code does for a repeat-measure bar: the glyph takes four cells
\* (24 characters) and counts for no slot, so four empty cells follow it and
\* the bar is eight cells wide, 21 characters wider than four narrow chords
\* with the spaces between them.
RepeatBarIsEightCellsWide ==
    (fn = "fmt" /\ bar_index > 0 /\ IsRepeatBar(BarWritten))
    => \E t \in {WrittenBarText(BarWritten)} :
           /\ JustWritten(t)
           /\ t = BarOpening(BarWritten) \o Spaces(12) \o <<"%">>
                  \o Spaces(11) \o Spaces(24) \o BarEnding(BarWritten)
           /\ Len(t) = Len(BarOpening(BarWritten)) + 48
                       + Len(BarEnding(BarWritten))
           /\ Len(t) = Len(WrittenBarText(FourSlotsOfChords(BarWritten))) + 21

(***************************************************************************)
(* Lexer: symbols that begin with another symbol.  The same lexer, run on  *)
(* every text of up to MaxPrefixLen characters over the characters of the  *)
(* symbols concerned.                                                      *)
(***************************************************************************)

PrefixChars == {"A", "b", "-", "6", "9", "^", "o", "|", "L", "Z", "}"}
MaxPrefixLen == 4

InitPrefixes ==
    /\ fn = "parse_tokens"
    /\ pc = "loop"
    /\ input \in UNION {[1..n -> PrefixChars] : n \in 0..MaxPrefixLen}
    /\ pass = 1
    /\ text = input
    /\ result = <<>>
    /\ tokens = <<>>
    /\ ret = NoRet
    /\ IdleUnescape /\ IdleMusic /\ IdleWritten

SpecPrefixes == InitPrefixes /\ [][NextTokens]_vars

\* A turn of the lexer collects a token.
TokenCollected == fn = "parse_tokens" /\ Len(tokens') = Len(tokens) + 1

\* The token of this turn is a chord of root r and quality k, and at least n
\* characters were consumed for it.
ChordRead(r, k, n) ==
    /\ tokens'[Len(tokens')].kind = "Chord"
    /\ tokens'[Len(tokens')].chord.root = r
    /\ tokens'[Len(tokens')].chord.flavor.kind = k
    /\ Len(text') <= Len(text) - n

\* The token of this turn is of kind k and took exactly the n characters s.
SymbolRead(k, n) ==
    /\ tokens'[Len(tokens')] = Tok(k)
    /\ text' = Drop(text, n)

\* C23: where one symbol begins with another and both apply, the lexer
\* yields the longer one: "Ab" is the note A flat and not A, after a root
\* "-69" is the minor six-nine and not a minor, "-^" the minor-major and not
\* a minor, "o^" the diminished-major and not a diminished, and "||", "LZ|"
\* and "}|" are each one token that takes all of the symbol.
C23_LongestMatchFirst ==
    [][TokenCollected =>
         /\ StartsWith(text, <<"A", "b">>)
            => \E k \in {tokens'[Len(tokens')].chord.flavor.kind} :
                   ChordRead("AFlat", k, 2)
         /\ StartsWith(text, <<"A", "-", "6", "9">>)
            => ChordRead("A", "MinorSixthNinth", 4)
         /\ StartsWith(text, <<"A", "b", "-", "^">>)
            => ChordRead("AFlat", "MinorMajor", 4)
         /\ StartsWith(text, <<"A", "-", "^">>)
            => ChordRead("A", "MinorMajor", 3)
         /\ StartsWith(text, <<"A", "o", "^">>)
            => ChordRead("A", "DiminishedMajor", 3)
         /\ StartsWith(text, <<"A", "b", "o", "^">>)
            => ChordRead("AFlat", "DiminishedMajor", 4)
         /\ StartsWith(text, <<"|", "|">>) => SymbolRead("Bar", 2)
         /\ StartsWith(text, <<"L", "Z", "|">>) => SymbolRead("Bar", 3)
         /\ StartsWith(text, <<"}", "|">>) => SymbolRead("RepeatEnd", 2)]_vars

\* The text "A-69" read as one chord, A minor six-nine.
C23_Witness ==
    /\ fn = "parse_tokens" /\ pc = "done"
    /\ input = <<"A", "-", "6", "9">>
    /\ ret = Ok(<< [kind |-> "Chord",
                    chord |-> [nc |-> FALSE, root |-> "A",
                               flavor |-> [kind |-> "MinorSixthNinth"],
                               altered_notes |-> <<>>,
                               bass_note |-> None]] >>)

\* The texts "LZ|", "}|", "||" and "Ab" each read as one token.
C23_WitnessSymbols ==
    /\ fn = "parse_tokens" /\ pc = "done" /\ Len(tokens) = 1
    /\ input \in {<<"L", "Z", "|">>, <<"}", "|">>, <<"|", "|">>, <<"A", "b">>}

(***************************************************************************)
(* Bar parser: what becomes of the chords of the open bar.                 *)
(***************************************************************************)

\* The places of the open bar that hold a chord put there by a Chord token.
ChordPlaces(b) ==
    {<<p, q>> \in (1..Len(b.counts)) \X (1..MaxTokens) :
        q <= Len(b.counts[p]) /\ b.counts[p][q].kind = "Chord"}

\* The step keeps the open bar's chord at place pq in the open bar.
KeptOpen(pq) ==
    /\ bar' # None
    /\ pq[1] <= Len(bar'.val.counts)
    /\ pq[2] <= Len(bar'.val.counts[pq[1]])
    /\ bar'.val.counts[pq[1]][pq[2]] = bar.val.counts[pq[1]][pq[2]]

\* The step seals the open bar: it is the bar pushed onto the sealed bars.
SealedNow ==
    Len(bars') > Len(bars) /\ bars'[Len(bars) + 1] = bar.val

\* A token is taken, without error or abort, while a bar is open.
TakenWithOpenBar ==
    TokenTaken /\ pc' = "loop" /\ ret' = NoRet /\ bar # None

\* C24: no chord is lost.  Sealed bars never change (C12), so a chord
\* reaches the result's sealed bars if every token met while its bar is open
\* either leaves it in the open bar or seals that bar; this is required of
\* every token, RepeatMeasure and RepeatTwoMeasures included.
C24_NoChordIsLost ==
    [][TakenWithOpenBar =>
         \A pq \in ChordPlaces(bar.val) : KeptOpen(pq) \/ SealedNow]_vars

\* What the code does: every token but the two repeats keeps or seals the
\* open bar's chords.
OnlyRepeatsDiscardOpenBar ==
    [][(TakenWithOpenBar
        /\ token'.kind \notin {"RepeatMeasure", "RepeatTwoMeasures"})
       => \A pq \in ChordPlaces(bar.val) : KeptOpen(pq) \/ SealedNow]_vars

\* The two repeats replace the open bar by a copy of the last sealed bar
\* and seal nothing of it: RepeatMeasure leaves the sealed bars as they are
\* and RepeatTwoMeasures adds a copy of the last but one.
RepeatsReplaceOpenBar ==
    [][(TakenWithOpenBar
        /\ token'.kind \in {"RepeatMeasure", "RepeatTwoMeasures"})
       => /\ bars # <<>>
          /\ bar' = Some(bars[Len(bars)])
          /\ IF token'.kind = "RepeatMeasure" THEN bars' = bars
             ELSE Len(bars) >= 2
                  /\ bars' = Append(bars, bars[Len(bars) - 1])]_vars

=============================================================================
